---- MODULE Spec2Model ----
(***************************************************************************)
(* Model of src/src/final_project_demo/analysis.py: the two functions      *)
(* choropleth(final_data_set) and high_and_low(final_data_set), called by  *)
(* a single-threaded caller, in any order, on one dataset object.          *)
(*                                                                         *)
(* Strings are sequences of one-character strings.  Numbers of the         *)
(* dataset are multiples of 1/8 (exact in binary floating point), held as  *)
(* the integer count of eighths; a number formatted with ":.2f" is the     *)
(* integer count of hundredths it prints.                                  *)
(***************************************************************************)
EXTENDS Integers, Sequences, FiniteSets, TLC

VARIABLES
    df,          \* the caller's dataset object (final_data_set, aliased by df)
    supplied,    \* the dataset as the caller built it, before any call
    dcStatehood, \* whether the us package runs with DC_STATEHOOD set
    call,        \* the last call: function, fault, faulting line, dataset at entry
    summary,     \* high_and_low's local list `summary` when the call ended
    stdout,      \* the tables the last call printed
    display,     \* the figures the last call showed
    touched      \* what choropleth calls have done to States so far

vars == <<df, supplied, dcStatehood, call, summary, stdout, display, touched>>

\* ---------------------------------------------------------------- bounds
MaxRows == 2

\* ---------------------------------------------------------------- strings
Whitespace == {" ", "\t", "\n"}

UpperSeq == <<"A","B","C","D","E","F","G","H","I","J","K","L","M",
             "N","O","P","Q","R","S","T","U","V","W","X","Y","Z">>

LowerSeq == <<"a","b","c","d","e","f","g","h","i","j","k","l","m",
             "n","o","p","q","r","s","t","u","v","w","x","y","z">>

Upper == { UpperSeq[i] : i \in 1..26 }

Lower == { LowerSeq[i] : i \in 1..26 }

Digits == {"0","1","2","3","4","5","6","7","8","9"}

California == <<"C","a","l","i","f","o","r","n","i","a">>

Texas == <<"T","e","x","a","s">>

NewYork == <<"N","e","w"," ","Y","o","r","k">>

DistrictOfColumbia ==
    <<"D","i","s","t","r","i","c","t"," ","o","f"," ",
      "C","o","l","u","m","b","i","a">>

Atlantis == <<"A","t","l","a","n","t","i","s">>

\* str.strip(): drop the whitespace at both ends, keep it inside.
RECURSIVE LStrip(_)
LStrip(s) ==
    IF s # <<>> /\ Head(s) \in Whitespace THEN LStrip(Tail(s)) ELSE s

RECURSIVE RStrip(_)
RStrip(s) ==
    IF s # <<>> /\ s[Len(s)] \in Whitespace
    THEN RStrip(SubSeq(s, 1, Len(s) - 1))
    ELSE s

\* Variant: only the leading whitespace is dropped (lstrip).
StripLeadingOnly(s) == LStrip(s)

Strip(s) == RStrip(LStrip(s))

\* ------------------------------------------- the us package (line 2, 12)
\* us is an external package: its lookup is modelled by its documented
\* behaviour, on an excerpt of its directory.
\* The records of us.states the model keeps: name, postal abbreviation, FIPS.
STATES ==
    { [name |-> California, abbr |-> <<"C","A">>, fips |-> <<"0","6">>],
      [name |-> NewYork,    abbr |-> <<"N","Y">>, fips |-> <<"3","6">>],
      [name |-> Texas,      abbr |-> <<"T","X">>, fips |-> <<"4","8">>] }

DC == [name |-> DistrictOfColumbia, abbr |-> <<"D","C">>, fips |-> <<"1","1">>]

\* lookup searches the states and territories; the District of Columbia is
\* among them only when the package runs with DC_STATEHOOD set.
Searched(statehood) == IF statehood THEN STATES \cup {DC} ELSE STATES

None == [none |-> TRUE]

\* us.states.lookup(val): two digits search the FIPS codes, two letters the
\* abbreviations (upper-cased), anything else the state names.  The names
\* are compared by metaphone; on the strings of this model that is equality.
ToUpper(c) ==
    IF c \in Lower
    THEN UpperSeq[CHOOSE i \in 1..26 : LowerSeq[i] = c]
    ELSE c

LookupField(val) ==
    IF Len(val) = 2 /\ \A i \in 1..2 : val[i] \in Digits THEN "fips"
    ELSE IF Len(val) = 2 /\ \A i \in 1..2 : val[i] \in Upper \cup Lower
    THEN "abbr"
    ELSE "name"

Lookup(val, statehood) ==
    LET field == LookupField(val)
        key   == IF field = "abbr" THEN [i \in 1..2 |-> ToUpper(val[i])] ELSE val
        m     == { s \in Searched(statehood) : s[field] = key }
    IN  IF m = {} THEN None ELSE CHOOSE s \in m : TRUE

\* get_abbr (lines 9-13).  state.abbr on None raises AttributeError.
Returned(v) == [raised |-> "", value |-> v]

Raised(e) == [raised |-> e, value |-> <<>>]

\* Variant: get_abbr without lines 10-11.
GetAbbrNoSpecialCase(name, statehood) ==
    LET state == Lookup(name, statehood)
    IN  IF state = None THEN Raised("AttributeError") ELSE Returned(state.abbr)

\* Variant: get_abbr returning the name itself when the lookup finds nothing.
GetAbbrFallback(name, statehood) ==
    IF name = DistrictOfColumbia THEN Returned(<<"D","C">>)
    ELSE LET state == Lookup(name, statehood)
         IN  IF state = None THEN Returned(name) ELSE Returned(state.abbr)

GetAbbr(name, statehood) ==
    IF name = DistrictOfColumbia THEN Returned(<<"D","C">>)
    ELSE LET state == Lookup(name, statehood)
         IN  IF state = None THEN Raised("AttributeError")
             ELSE Returned(state.abbr)

\* ---------------------------------------------------------------- numbers
\* round-half-to-even of num/den (den > 0, num >= 0): what ":.2f" does to a
\* value that binary floating point holds exactly.
\* Variant of the rounding: halves go up.
RoundHalfUp(num, den) == (2 * num + den) \div (2 * den)

RoundHalfEven(num, den) ==
    LET q == num \div den
        r == num % den
    IN  IF 2 * r < den THEN q
        ELSE IF 2 * r > den THEN q + 1
        ELSE IF q % 2 = 0 THEN q ELSE q + 1

\* floor of the square root, by bisection
RECURSIVE IsqrtIn(_, _, _)
IsqrtIn(n, lo, hi) ==
    IF hi - lo <= 1 THEN lo
    ELSE LET mid == (lo + hi) \div 2
         IN  IF mid * mid <= n THEN IsqrtIn(n, mid, hi) ELSE IsqrtIn(n, lo, mid)

Isqrt(n) == IsqrtIn(n, 0, 46340)

\* A formatted number: the hundredths it prints, or "nan".
Fmt(h) == [nan |-> FALSE, h |-> h]

NaN == [nan |-> TRUE, h |-> 0]

RECURSIVE SumSeq(_)
SumSeq(s) == IF s = <<>> THEN 0 ELSE Head(s) + SumSeq(Tail(s))

SumSq(s) == SumSeq([i \in 1..Len(s) |-> s[i] * s[i]])

\* Series.max(), Series.min() (lines 48-49, 26)
SeriesMax(s) == CHOOSE m \in { s[i] : i \in 1..Len(s) } :
                    \A i \in 1..Len(s) : s[i] <= m

SeriesMin(s) == CHOOSE m \in { s[i] : i \in 1..Len(s) } :
                    \A i \in 1..Len(s) : s[i] >= m

\* Series.idxmax(), Series.idxmin() (lines 50-51): the label of the first
\* row holding the extreme.
\* Variant: the last row holding the maximum.
IdxMaxLast(s) ==
    LET m == SeriesMax(s)
    IN  CHOOSE i \in 1..Len(s) :
           /\ s[i] = m
           /\ \A j \in (i + 1)..Len(s) : s[j] # m

IdxMax(s) ==
    LET m == SeriesMax(s)
    IN  CHOOSE i \in 1..Len(s) :
           /\ s[i] = m
           /\ \A j \in 1..(i - 1) : s[j] # m

IdxMin(s) ==
    LET m == SeriesMin(s)
    IN  CHOOSE i \in 1..Len(s) :
           /\ s[i] = m
           /\ \A j \in 1..(i - 1) : s[j] # m

\* f"{x:.2f}" of a value of the dataset (eighths to hundredths)
FmtValue(k) == Fmt(RoundHalfEven(100 * k, 8))

\* Variant: the mean rounded with halves going up.
FmtMeanHalfUp(s) == Fmt(RoundHalfUp(100 * SumSeq(s), 8 * Len(s)))

\* f"{mean_val:.2f}" with mean_val = Series.mean() (lines 46, 55)
FmtMean(s) == Fmt(RoundHalfEven(100 * SumSeq(s), 8 * Len(s)))

\* f"{std_val:.2f}" with std_val = Series.std(), the sample standard
\* deviation (ddof = 1), NaN on a single row (lines 47, 55).
\* (200 std)^2 = 625 Q / (n (n - 1)) with Q = n * sum k^2 - (sum k)^2.
FmtStd(s) ==
    LET n == Len(s)
    IN  IF n < 2 THEN NaN
        ELSE LET Q == n * SumSq(s) - SumSeq(s) * SumSeq(s)
                 A == 625 * Q
                 B == n * (n - 1)
                 f == Isqrt(A \div B)
                 m == f \div 2
             IN  IF f % 2 = 0 THEN Fmt(m)
                 ELSE IF f * f * B # A THEN Fmt(m + 1)
                 ELSE IF m % 2 = 0 THEN Fmt(m) ELSE Fmt(m + 1)

\* ---------------------------------------------------------------- dataset
\* columns_to_summarize (lines 37-41), in its order
columns_to_summarize ==
    << "Not_graduated", "HDI", "Health_Index",
       "Education_Index", "Income_Index",
       "Homeless_Ratio", "Unsheltered_Homeless", "Avg_PM25" >>

Columns == { columns_to_summarize[i] : i \in 1..Len(columns_to_summarize) }

\* The names the module binds at import (lines 1-2).
ImportedNames == {"px", "us"}

\* A dataset: the States column and the indicator columns it has, each a
\* sequence with one entry per row, labelled 1..n (the default index).
NumRows(d) == Len(d.States)

Pad(l, name, r) == l \o name \o r

\* The States values and the indicator values the caller may supply.  A
\* dataset has at least one row (one row per state) and numeric indicators.
RawNames ==
    { California,
      Texas,
      Pad(<<" ">>, NewYork, <<>>),
      Pad(<<" ">>, DistrictOfColumbia, <<" ", "\t">>),
      Pad(<<"\t">>, Atlantis, <<>>) }

\* (Avg_PM25-like value, HDI-like value) of a row, in eighths
ValuePairs == { <<80, 3>>, <<160, 1>>, <<160, 3>> }

FirstOfPair == {"Not_graduated", "Health_Index", "Income_Index", "Avg_PM25"}

MissingChoices == { {}, {"Income_Index"}, {"HDI", "Avg_PM25"} }

MkDataset(names, pairs, missing) ==
    [ States |-> names,
      data   |-> [ c \in Columns \ missing |->
                     [ i \in 1..Len(names) |->
                         IF c \in FirstOfPair THEN pairs[i][1] ELSE pairs[i][2] ] ] ]

NoCall == [fn |-> "none", fault |-> "", key |-> "", line |-> 0, pre |-> <<>>]

Init ==
    \E n \in 1..MaxRows :
      \E names \in [1..n -> RawNames], pairs \in [1..n -> ValuePairs],
         missing \in MissingChoices :
        /\ df = MkDataset(names, pairs, missing)
        /\ supplied = df
        /\ dcStatehood \in BOOLEAN
        /\ call = NoCall
        /\ summary = <<>>
        /\ stdout = <<>>
        /\ display = <<>>
        /\ touched = "no"

\* ---------------------------------------------------------------- choropleth
\* line 7: df["States"] = df["States"].str.strip()
\* Variant: the stripped column is not assigned back.
StrStripNotAssigned(d) == d

\* Variant: lstrip in place of strip.
StrStripKeepTrailing(d) ==
    [d EXCEPT !.States = [i \in 1..NumRows(d) |-> StripLeadingOnly(d.States[i])]]

StrStrip(d) ==
    [d EXCEPT !.States = [i \in 1..NumRows(d) |-> Strip(d.States[i])]]

\* line 15: df["States"].apply(get_abbr), row by row; the first row that
\* raises ends the apply and nothing is assigned.
ApplyRaises(d, statehood) ==
    \E i \in 1..NumRows(d) : GetAbbr(d.States[i], statehood).raised # ""

\* Variant: the abbreviated column is not assigned back.
ApplyGetAbbrNotAssigned(d, statehood) == d

ApplyGetAbbr(d, statehood) ==
    [d EXCEPT !.States =
        [i \in 1..NumRows(d) |-> GetAbbr(d.States[i], statehood).value]]

\* lines 17-28: the arguments px.choropleth receives
color_scale == <<"green", "yellow", "orange", "red">>

\* Variant: (max, min).
RangeColorSwapped(d) ==
    <<SeriesMax(d.data["Avg_PM25"]), SeriesMin(d.data["Avg_PM25"])>>

RangeColor(d) ==
    <<SeriesMin(d.data["Avg_PM25"]), SeriesMax(d.data["Avg_PM25"])>>

PxChoropleth(d) ==
    [ locations    |-> d.States,
      locationmode |-> "USA-states",
      color        |-> d.data["Avg_PM25"],
      scope        |-> "usa",
      color_continuous_scale |-> color_scale,
      range_color  |-> RangeColor(d),
      label        |-> "Average PM2.5" ]

\* touched: "no" < "strip" (line 7 ran) < "abbr" (line 15 assigned).
Furthest(a, b) ==
    IF a = "abbr" \/ b = "abbr" THEN "abbr"
    ELSE IF a = "strip" \/ b = "strip" THEN "strip" ELSE "no"

Choropleth ==
    LET d1 == StrStrip(df)
        d2 == ApplyGetAbbr(d1, dcStatehood)
    IN  /\ summary' = <<>>
        /\ stdout' = <<>>
        /\ UNCHANGED <<supplied, dcStatehood>>
        /\ IF ApplyRaises(d1, dcStatehood)
           THEN /\ df' = d1
                /\ call' = [fn |-> "choropleth", fault |-> "AttributeError",
                            key |-> "", line |-> 15, pre |-> df]
                /\ display' = <<>>
                /\ touched' = Furthest(touched, "strip")
           ELSE IF "Avg_PM25" \notin DOMAIN d2.data
           THEN /\ df' = d2
                /\ call' = [fn |-> "choropleth", fault |-> "KeyError",
                            key |-> "Avg_PM25", line |-> 26, pre |-> df]
                /\ display' = <<>>
                /\ touched' = "abbr"
           ELSE /\ df' = d2
                /\ call' = [fn |-> "choropleth", fault |-> "",
                            key |-> "", line |-> 30, pre |-> df]
                /\ display' = <<PxChoropleth(d2)>>
                /\ touched' = "abbr"

\* ---------------------------------------------------------------- high_and_low
\* lines 46-58: the dict appended for one column
SummaryRow(d, col) ==
    LET s == d.data[col]
        mean_val  == FmtMean(s)
        std_val   == FmtStd(s)
        max_val   == FmtValue(SeriesMax(s))
        min_val   == FmtValue(SeriesMin(s))
        state_max == d.States[IdxMax(s)]
        state_min == d.States[IdxMin(s)]
    IN  [ Variable      |-> col,
          Average_SD    |-> <<mean_val, std_val>>,
          Highest_State |-> <<state_max, max_val>>,
          Lowest_State  |-> <<state_min, min_val>> ]

\* Variant: a missing column is skipped.
RECURSIVE SummaryLoopSkipMissing(_, _, _)
SummaryLoopSkipMissing(d, i, rows) ==
    IF i > Len(columns_to_summarize)
    THEN [rows |-> rows, fault |-> "", col |-> ""]
    ELSE LET col == columns_to_summarize[i]
         IN  IF col \notin DOMAIN d.data
             THEN SummaryLoopSkipMissing(d, i + 1, rows)
             ELSE SummaryLoopSkipMissing(d, i + 1, Append(rows, SummaryRow(d, col)))

\* lines 45-58: the loop from column i on, with the rows appended so far;
\* df[col] raises KeyError on a column the dataset lacks (line 46).
RECURSIVE SummaryLoop(_, _, _)
SummaryLoop(d, i, rows) ==
    IF i > Len(columns_to_summarize)
    THEN [rows |-> rows, fault |-> "", col |-> ""]
    ELSE LET col == columns_to_summarize[i]
         IN  IF col \notin DOMAIN d.data
             THEN [rows |-> rows, fault |-> "KeyError", col |-> col]
             ELSE SummaryLoop(d, i + 1, Append(rows, SummaryRow(d, col)))

HighAndLow ==
    LET loop == SummaryLoop(df, 1, <<>>)
    IN  /\ summary' = loop.rows
        /\ display' = <<>>
        /\ UNCHANGED <<df, supplied, dcStatehood, touched>>
        /\ IF loop.fault # ""
           THEN /\ call' = [fn |-> "high_and_low", fault |-> loop.fault,
                            key |-> loop.col, line |-> 46, pre |-> df]
                /\ stdout' = <<>>
           ELSE IF "pd" \notin ImportedNames
           THEN \* line 59: pd is not a name of the module
                /\ call' = [fn |-> "high_and_low", fault |-> "NameError",
                            key |-> "pd", line |-> 59, pre |-> df]
                /\ stdout' = <<>>
           ELSE /\ call' = [fn |-> "high_and_low", fault |-> "",
                            key |-> "", line |-> 60, pre |-> df]
                /\ stdout' = <<loop.rows>>

Next == Choropleth \/ HighAndLow

Spec == Init /\ [][Next]_vars

\* ================================================================ properties
Rows(d) == 1..NumRows(d)

AfterChoropleth == call.fn = "choropleth"

AfterHighAndLow == call.fn = "high_and_low"

\* The names of the directory's states, and the District of Columbia.
ValidNames == { s.name : s \in STATES } \cup {DistrictOfColumbia}

PostalCode(name) == (CHOOSE s \in STATES \cup {DC} : s.name = name).abbr

\* The first index of columns_to_summarize the dataset lacks.
FirstMissing(d) ==
    CHOOSE i \in 1..Len(columns_to_summarize) :
       /\ columns_to_summarize[i] \notin DOMAIN d.data
       /\ \A j \in 1..(i - 1) : columns_to_summarize[j] \in DOMAIN d.data

\* C1: on a dataset with all eight columns high_and_low ends without a fault
\* and prints exactly one table, one row per column, in the fixed order.
C1_PrintsOneTable ==
    (AfterHighAndLow /\ DOMAIN call.pre.data = Columns) =>
        /\ call.fault = ""
        /\ Len(stdout) = 1
        /\ Len(stdout[1]) = Len(columns_to_summarize)
        /\ \A i \in 1..Len(columns_to_summarize) :
              stdout[1][i].Variable = columns_to_summarize[i]

\* C2 as stated: the rows high_and_low assembles are those it assembles on
\* the dataset as supplied, whatever choropleth calls came before, and
\* high_and_low leaves the dataset to choropleth as it found it.
C2_NoInteraction ==
    AfterHighAndLow =>
        /\ summary = SummaryLoop(supplied, 1, <<>>).rows
        /\ df = call.pre

\* What the choropleth calls so far have made of a supplied States value.
Seen(name) ==
    IF touched = "no" THEN name
    ELSE IF touched = "strip" THEN Strip(name)
    ELSE PostalCode(Strip(name))

\* C2 amended: high_and_low leaves the dataset unchanged and no call changes
\* an indicator column, so choropleth is unaffected by high_and_low; the
\* rows high_and_low assembles have the variables, statistics and extreme
\* values of the supplied dataset, but name the extreme rows by the current
\* States values: as supplied before any choropleth call, trimmed after a
\* choropleth call that failed in the abbreviation step, abbreviated after
\* one that passed it.
C2_InteractionThroughStates ==
    /\ df.data = supplied.data
    /\ NumRows(df) = NumRows(supplied)
    /\ \A i \in Rows(df) : df.States[i] = Seen(supplied.States[i])
    /\ AfterHighAndLow =>
          LET rows0 == SummaryLoop(supplied, 1, <<>>).rows
          IN  /\ df = call.pre
              /\ Len(summary) = Len(rows0)
              /\ \A k \in 1..Len(summary) :
                    /\ summary[k].Variable = rows0[k].Variable
                    /\ summary[k].Average_SD = rows0[k].Average_SD
                    /\ summary[k].Highest_State =
                          <<Seen(rows0[k].Highest_State[1]), rows0[k].Highest_State[2]>>
                    /\ summary[k].Lowest_State =
                          <<Seen(rows0[k].Lowest_State[1]), rows0[k].Lowest_State[2]>>

C2_Witness ==
    /\ AfterHighAndLow
    /\ touched = "abbr"
    /\ Len(summary) = Len(columns_to_summarize)
    /\ summary # SummaryLoop(supplied, 1, <<>>).rows

\* C3: when every trimmed States value is a valid state name or "District of
\* Columbia", the abbreviation step yields each row's postal code ("DC" for
\* the District), and rows with different names get different codes.
C3_PostalCodes ==
    (AfterChoropleth /\ \A i \in Rows(call.pre) :
                           Strip(call.pre.States[i]) \in ValidNames) =>
        /\ call.fault # "AttributeError"
        /\ \A i \in Rows(call.pre) :
              /\ df.States[i] = PostalCode(Strip(call.pre.States[i]))
              /\ Len(df.States[i]) = 2
              /\ Strip(call.pre.States[i]) = DistrictOfColumbia
                    => df.States[i] = <<"D","C">>
        /\ \A i, j \in Rows(call.pre) :
              Strip(call.pre.States[i]) # Strip(call.pre.States[j])
                 => df.States[i] # df.States[j]

C3_Witness ==
    /\ AfterChoropleth
    /\ call.fault = ""
    /\ ~dcStatehood
    /\ \E i, j \in Rows(call.pre) :
          /\ call.pre.States[i] # Strip(call.pre.States[i])
          /\ Strip(call.pre.States[i]) = DistrictOfColumbia
          /\ df.States[i] = <<"D","C">>
          /\ Strip(call.pre.States[j]) = NewYork
          /\ df.States[j] = <<"N","Y">>

\* C4 as stated: a trimmed States value that is neither a state name nor
\* "District of Columbia" makes choropleth fail in the abbreviation step,
\* before any figure is rendered or shown.
C4_FailsOnNonName ==
    (AfterChoropleth /\ \E i \in Rows(call.pre) :
                           Strip(call.pre.States[i]) \notin ValidNames) =>
        /\ call.fault = "AttributeError"
        /\ call.line = 15
        /\ display = <<>>

\* C4 amended: a trimmed States value that is not "District of Columbia" and
\* for which the directory lookup finds no state makes choropleth fail in
\* the abbreviation step, before any figure is rendered or shown.  (The
\* lookup also finds a state by its two-letter abbreviation.)
C4_FailsOnUnresolved ==
    (AfterChoropleth /\ \E i \in Rows(call.pre) :
                           /\ Strip(call.pre.States[i]) # DistrictOfColumbia
                           /\ Lookup(Strip(call.pre.States[i]), dcStatehood) = None) =>
        /\ call.fault = "AttributeError"
        /\ call.line = 15
        /\ display = <<>>

C4_Witness ==
    /\ AfterChoropleth
    /\ call.fault = "AttributeError"
    /\ NumRows(call.pre) = 2
    /\ Strip(call.pre.States[1]) = Texas
    /\ Strip(call.pre.States[2]) = Atlantis
    /\ display = <<>>

\* C5: after a choropleth call that ended without a fault the caller's
\* dataset has each States value replaced by the abbreviation of its trimmed
\* former value, the same rows in the same order, and every indicator
\* column as before.
C5_StatesOverwritten ==
    (AfterChoropleth /\ call.fault = "") =>
        /\ NumRows(df) = NumRows(call.pre)
        /\ \A i \in Rows(call.pre) :
              LET state == Lookup(Strip(call.pre.States[i]), dcStatehood)
              IN  df.States[i] =
                    IF Strip(call.pre.States[i]) = DistrictOfColumbia
                    THEN <<"D","C">> ELSE state.abbr
        /\ df.data = call.pre.data

C5_Witness ==
    /\ AfterChoropleth
    /\ call.fault = ""
    /\ NumRows(df) = 2
    /\ call.pre.States[1] = Pad(<<" ">>, NewYork, <<>>)
    /\ df.States = << <<"N","Y">>, <<"C","A">> >>

\* C6: each assembled row names, as Highest State, the States value of the
\* first row holding the column's maximum together with that maximum, and
\* as Lowest State the same for the minimum.
C6_ExtremeRows ==
    AfterHighAndLow =>
        \A k \in 1..Len(summary) :
           LET s == call.pre.data[summary[k].Variable]
           IN  /\ \E i \in Rows(call.pre) :
                     /\ \A j \in Rows(call.pre) : s[j] <= s[i]
                     /\ \A j \in 1..(i - 1) : s[j] < s[i]
                     /\ summary[k].Highest_State =
                           <<call.pre.States[i], FmtValue(s[i])>>
               /\ \E i \in Rows(call.pre) :
                     /\ \A j \in Rows(call.pre) : s[j] >= s[i]
                     /\ \A j \in 1..(i - 1) : s[j] > s[i]
                     /\ summary[k].Lowest_State =
                           <<call.pre.States[i], FmtValue(s[i])>>

C6_Witness ==
    /\ AfterHighAndLow
    /\ NumRows(call.pre) = 2
    /\ call.pre.States[1] # call.pre.States[2]
    /\ \E k \in 1..Len(summary) :
          /\ summary[k].Variable = "Avg_PM25"
          /\ call.pre.data["Avg_PM25"] = <<160, 160>>
          /\ summary[k].Highest_State[1] = call.pre.States[1]
    /\ \E k \in 1..Len(summary) :
          /\ summary[k].Variable = "HDI"
          /\ call.pre.data["HDI"] = <<3, 1>>
          /\ summary[k].Lowest_State = <<call.pre.States[2], Fmt(12)>>

\* C7: when the dataset lacks one of the eight columns high_and_low ends
\* with a KeyError for the first missing column of the fixed order, having
\* assembled only the rows before it, and prints nothing.
C7_MissingColumn ==
    (AfterHighAndLow /\ DOMAIN call.pre.data # Columns) =>
        /\ call.fault = "KeyError"
        /\ call.key = columns_to_summarize[FirstMissing(call.pre)]
        /\ Len(summary) = FirstMissing(call.pre) - 1
        /\ stdout = <<>>

C7_Witness ==
    /\ AfterHighAndLow
    /\ Cardinality(Columns \ DOMAIN call.pre.data) = 2
    /\ call.fault = "KeyError"
    /\ call.key = "HDI"
    /\ Len(summary) = 1
    /\ stdout = <<>>

\* C8: on a dataset of one row every assembled row has the row's value as
\* mean, and names that row's state with that value as both Highest State
\* and Lowest State.
C8_SingleRow ==
    (AfterHighAndLow /\ NumRows(call.pre) = 1) =>
        \A k \in 1..Len(summary) :
           LET v == call.pre.data[summary[k].Variable][1]
           IN  /\ summary[k].Average_SD[1] = FmtValue(v)
               /\ summary[k].Highest_State = <<call.pre.States[1], FmtValue(v)>>
               /\ summary[k].Lowest_State = <<call.pre.States[1], FmtValue(v)>>

C8_Witness ==
    /\ AfterHighAndLow
    /\ NumRows(call.pre) = 1
    /\ Len(summary) = Len(columns_to_summarize)
    /\ summary[2].Average_SD = <<Fmt(12), NaN>>
    /\ summary[8].Average_SD = <<Fmt(2000), NaN>>

\* C9: the figure shown got as range_color the (minimum, maximum) of
\* Avg_PM25 over all rows, so lower <= upper and every row's value lies
\* within, and as locations the abbreviated States values; rows
\* California = 10.0, Texas = 20.0 give locations CA, TX and (10.0, 20.0).
C9_RangeAndLocations ==
    (AfterChoropleth /\ call.fault = "") =>
        /\ Len(display) = 1
        /\ LET fig == display[1]
               pm  == call.pre.data["Avg_PM25"]
               lo  == fig.range_color[1]
               hi  == fig.range_color[2]
           IN  /\ lo <= hi
               /\ \A i \in Rows(call.pre) : lo <= pm[i] /\ pm[i] <= hi
               /\ \E i \in Rows(call.pre) : pm[i] = lo
               /\ \E i \in Rows(call.pre) : pm[i] = hi
               /\ fig.color = pm
               /\ fig.locations = df.States
               /\ \A i \in Rows(call.pre) :
                     Strip(call.pre.States[i]) \in ValidNames =>
                        fig.locations[i] = PostalCode(Strip(call.pre.States[i]))
               /\ (call.pre.States = <<California, Texas>> /\ pm = <<80, 160>>) =>
                     /\ fig.locations = << <<"C","A">>, <<"T","X">> >>
                     /\ fig.range_color = <<80, 160>>

C9_Witness ==
    /\ AfterChoropleth
    /\ call.fault = ""
    /\ call.pre.States = <<California, Texas>>
    /\ call.pre.data["Avg_PM25"] = <<80, 160>>
    /\ Len(display) = 1
    /\ display[1].range_color = <<80, 160>>

\* C10: when choropleth fails in the abbreviation step the caller's dataset
\* holds every States value trimmed and none abbreviated; rows and indicator
\* columns are as before.
C10_TrimmedNotAbbreviated ==
    (AfterChoropleth /\ call.fault = "AttributeError") =>
        /\ NumRows(df) = NumRows(call.pre)
        /\ \A i \in Rows(call.pre) : df.States[i] = Strip(call.pre.States[i])
        /\ df.data = call.pre.data

C10_Witness ==
    /\ AfterChoropleth
    /\ call.fault = "AttributeError"
    /\ NumRows(df) = 2
    /\ call.pre.States[1] = Pad(<<" ">>, NewYork, <<>>)
    /\ df.States[1] = NewYork
    /\ call.pre.States[2] = Pad(<<"\t">>, Atlantis, <<>>)
    /\ df.States[2] = Atlantis

====
